---- MODULE Spec2Model ----
(***************************************************************************)
(* The cache-policy reconciliation handler of                              *)
(* src/cache_policy/lambda_function.py as a state machine.                 *)
(*                                                                         *)
(* One deployment attempt is one fresh invocation of lambda_handler plus   *)
(* the re-invocations the orchestrator makes with the pass_back_data of    *)
(* the previous response.  Inside an invocation the position pc walks the  *)
(* declared calls of lambda_handler in their textual order:                *)
(*   get_cache_policy, delete_cache_policy, create_cache_policy,           *)
(*   update_cache_policy, eh.finish().                                     *)
(* The extension handler eh (props, links, state, ops, retries, declared   *)
(* return) comes from the extutil package, which is imported but is not    *)
(* part of the sources; it is modelled from the module docstring           *)
(* (lines 25-48) and, where the docstring is silent, from the              *)
(* specification.                                                          *)
(***************************************************************************)
EXTENDS Integers, Sequences, FiniteSets, TLC

VARIABLES
    sdk,        \* which API surface the object `client` offers (line 20)
    event,      \* the invocation input: op, prev_state.props.id, component_def
    remote,     \* the remote resources, by id
    eh,         \* the module-level ExtensionHandler (line 17)
    pc,         \* position inside lambda_handler
    response,   \* what the last invocation returned
    invocations,\* number of invocations of this deployment attempt so far
    entered,    \* op bodies entered, in order, over the whole attempt
    calls,      \* remote calls issued, in order, over the whole attempt
    outcome     \* per invocation: the answer of the last remote call

vars == <<sdk, event, remote, eh, pc, response, invocations, entered, calls, outcome>>

None == "None"

-----------------------------------------------------------------------------
(* Bounds of the model *)

NumTagKeys == 2

(* Program constants *)

MaxRetries == 6

ProgressGetRetry == 10

ProgressCreateError == 20

ProgressDeleteError == 80

ProgressDone == 100

-----------------------------------------------------------------------------
(* Small value domains *)

EmptyMap == [k \in {} |-> None]

TagKeys == 1..NumTagKeys

TagVals == {"v1", "v2"}

TagMaps == UNION {[S -> TagVals] : S \in SUBSET TagKeys}

Descriptions == {None, "d1"}

Ttls == {None}

ComponentDefs == [description : Descriptions, default_ttl : Ttls, tags : TagMaps]

OldId == "X"

NewId == "N"

Region == "r1"

-----------------------------------------------------------------------------
(* Python and SDK facts the handler's control flow depends on *)

\* The names bound at module level: the imports (lines 1-15), the module
\* globals (lines 17-22) and the functions the file defines.
DefinedNames ==
    {"boto3", "botocore", "json", "traceback", "zipfile", "os", "subprocess",
     "logging", "ClientError", "remove_none_attributes", "account_context",
     "ExtensionHandler", "ext", "current_epoch_time_usec_num",
     "component_safe_name", "lambda_env", "random_id", "handle_common_errors",
     "eh", "client", "logger", "safe_cast", "lambda_handler",
     "get_cache_policy", "create_cache_policy", "remove_tags", "set_tags",
     "update_cache_policy", "update_cache_policy_priority",
     "delete_cache_policy", "gen_cache_policy_link"}

\* Evaluating a global name that is not bound raises NameError.
NameDefined(n) == n \in DefinedNames

\* `client` is boto3.client('cloudfront') (line 20).  The exception classes,
\* methods and call parameters the file names (RuleNotFoundException,
\* describe_tags, RuleArn=, ...) are not part of the sources: "as_written"
\* is an SDK object that offers all of them, "cloudfront" is one that offers
\* only the CloudFront surface, on which looking up client.exceptions.<name>
\* raises AttributeError and a call with unknown parameters raises before
\* anything is sent.
SdkSurfaces == {"as_written", "cloudfront"}

ExceptionResolves(s) == s = "as_written"

CallAccepted(s, call) == s = "as_written" \/ call = "get_cache_policy"

-----------------------------------------------------------------------------
(* lambda_handler: the desired attributes *)

Or(v, default) == IF v = None THEN default ELSE v

RemoveNoneAttributes(d) == [k \in {x \in DOMAIN d : d[x] # None} |-> d[k]]

DictGet(d, k) == IF k \in DOMAIN d THEN d[k] ELSE None

ResourceName == "name1"

\* attributes (lines 86-132).  component_def keys the handler never reads
\* (tags among them) do not reach the result.
Attributes(cdef) ==
    RemoveNoneAttributes(
        [Comment    |-> cdef.description,
         Name       |-> ResourceName,
         DefaultTTL |-> Or(cdef.default_ttl, "86400"),
         MaxTTL     |-> "31536000",
         MinTTL     |-> None,
         ParametersInCacheKeyAndForwardedToOrigin |-> "defaults"])

\* attributes.get("Tags"), with None and {} both falsy
DesiredTags(attrs) == IF "Tags" \in DOMAIN attrs THEN attrs["Tags"] ELSE EmptyMap

Configs == {Attributes(c) : c \in ComponentDefs}

-----------------------------------------------------------------------------
(* extutil.ExtensionHandler *)

NoReturn == [declared |-> FALSE, progress |-> 0, error |-> None, callback |-> FALSE]

NoResponse ==
    [sent |-> FALSE, progress |-> 0, error |-> None, props |-> EmptyMap,
     links |-> EmptyMap, has_pass_back |-> FALSE,
     pass_back |-> [ops |-> <<>>, retries |-> EmptyMap, state |-> EmptyMap]]

NewHandler ==
    [ops |-> <<>>, retries |-> EmptyMap, props |-> EmptyMap, links |-> EmptyMap,
     state |-> EmptyMap, ret |-> NoReturn]

OpValue(keys, tags) == [keys |-> keys, tags |-> tags]

Flag == OpValue({}, EmptyMap)

OpNames(e) == [i \in 1..Len(e.ops) |-> e.ops[i].name]

HasOp(e, name) == \E i \in 1..Len(e.ops) : e.ops[i].name = name

OpValueOf(e, name) == e.ops[CHOOSE i \in 1..Len(e.ops) : e.ops[i].name = name].val

\* eh.add_op(name, value): a dict assignment, the key keeps its place
AddOp(e, name, val) ==
    IF HasOp(e, name)
    THEN [e EXCEPT !.ops = [i \in 1..Len(e.ops) |->
                              IF e.ops[i].name = name
                              THEN [name |-> name, val |-> val] ELSE e.ops[i]]]
    ELSE [e EXCEPT !.ops = Append(e.ops, [name |-> name, val |-> val])]

\* the operation leaves the queue
CompleteOp(e, name) ==
    [e EXCEPT !.ops = SelectSeq(e.ops, LAMBDA o : o.name # name)]

\* eh.add_state / add_props / add_links: merge, new keys overwrite old
AddState(e, kv) == [e EXCEPT !.state = kv @@ e.state]

AddProps(e, kv) == [e EXCEPT !.props = kv @@ e.props]

AddLinks(e, kv) == [e EXCEPT !.links = kv @@ e.links]

DeclareReturn(e, progress, error, callback) ==
    [e EXCEPT !.ret = [declared |-> TRUE, progress |-> progress,
                       error |-> error, callback |-> callback]]

\* eh.perm_error(message, progress)
PermError(e, msg, progress) == DeclareReturn(e, progress, msg, FALSE)

RetryCount(e, id) == IF id \in DOMAIN e.retries THEN e.retries[id] ELSE 0

\* mutant: a retry is called back however often it was declared
RetryErrorUnbounded(e, id, progress) ==
    LET n  == RetryCount(e, id) + 1
        e1 == [e EXCEPT !.retries = (id :> n) @@ e.retries]
    IN  DeclareReturn(e1, progress, id, TRUE)

\* eh.retry_error(error_id, progress): fails out after MaxRetries tries
RetryError(e, id, progress) ==
    LET n  == RetryCount(e, id) + 1
        e1 == [e EXCEPT !.retries = (id :> n) @@ e.retries]
    IN  DeclareReturn(e1, progress, id, n <= MaxRetries)

\* handle_common_errors(e, eh, message, progress): a client error of the
\* permanent set fails the deployment, any other one is retried
HandleCommonErrors(e, msg, progress) ==
    IF msg = "Permanent" THEN PermError(e, msg, progress)
    ELSE RetryError(e, msg, progress)

\* @ext(handler=eh, op=...): the body runs if its operation is present and
\* no return (retry, error) is declared yet
ExtRuns(e, op) == HasOp(e, op) /\ ~e.ret.declared

\* ... and a body that returned without declaring a return completes its op
ExtReturn(e, op) == IF e.ret.declared THEN e ELSE CompleteOp(e, op)

\* mutant: the unexpected exception is reported as a retry
UnexpectedRetries(e, msg) == DeclareReturn(e, 0, msg, TRUE)

\* lambda_handler's `except Exception` (lines 179-184)
Unexpected(e, msg) == DeclareReturn(e, 0, msg, FALSE)

\* eh.finish()
Finish(e) ==
    IF ~e.ret.declared
    THEN [sent |-> TRUE, progress |-> ProgressDone, error |-> None,
          props |-> e.props, links |-> e.links, has_pass_back |-> FALSE,
          pass_back |-> NoResponse.pass_back]
    ELSE [sent |-> TRUE, progress |-> e.ret.progress, error |-> e.ret.error,
          props |-> e.props, links |-> e.links,
          has_pass_back |-> e.ret.callback,
          pass_back |-> IF e.ret.callback
                        THEN [ops |-> e.ops, retries |-> e.retries, state |-> e.state]
                        ELSE NoResponse.pass_back]

\* eh.capture_event(event): a fresh handler, loaded from pass_back_data on a retry
CaptureEvent(resp) ==
    IF resp.has_pass_back
    THEN [NewHandler EXCEPT !.ops = resp.pass_back.ops,
                            !.retries = resp.pass_back.retries,
                            !.state = resp.pass_back.state,
                            !.props = resp.props,
                            !.links = resp.links]
    ELSE NewHandler

-----------------------------------------------------------------------------
(* The operation bodies.  A body yields the handler it leaves behind and   *)
(* the exception that escapes it, if any.                                  *)

Ok(e) == [e |-> e, exc |-> None]

Raise(e, x) == [e |-> e, exc |-> x]

NoResource == [exists |-> FALSE, config |-> EmptyMap, tags |-> EmptyMap, etag |-> None]

Resources == [exists : {TRUE}, config : Configs, tags : TagMaps, etag : {"E1"}]

ErrorAnswers == {"NotFound", "NotAuthorized", "Permanent", "Transient"}

\* The comparison of desired and observed tags (lines 244-271, 325-352).
\* key_value_list_obj_to_compressed_dict turns a list of {Key, Value} into a
\* dict (comment at line 252); it is called for a non-empty list only.
TagDiff(e, attrs, observed) ==
    LET desired == DesiredTags(attrs)
        helper  == NameDefined("key_value_list_obj_to_compressed_dict")
    IN  IF observed # EmptyMap /\ ~helper THEN Raise(e, "NameError")
        ELSE IF desired # EmptyMap
        THEN IF ~helper THEN Raise(e, "NameError")
             ELSE IF desired # observed
             THEN LET rm  == DOMAIN observed \ DOMAIN desired
                      ks  == {k \in DOMAIN desired :
                                 k \notin DOMAIN observed \/ observed[k] # desired[k]}
                      add == [k \in ks |-> desired[k]]
                      e1  == IF rm # {}
                             THEN AddOp(e, "remove_tags", OpValue(rm, EmptyMap)) ELSE e
                      e2  == IF ks # {}
                             THEN AddOp(e1, "set_tags", OpValue({}, add)) ELSE e1
                  IN  Ok(e2)
             ELSE Ok(e)
        ELSE IF observed # EmptyMap
             THEN Ok(AddOp(e, "remove_tags", OpValue(DOMAIN observed, EmptyMap)))
             ELSE Ok(e)

\* client.describe_tags(...) followed by the comparison
TagReconcile(s, e, attrs, observed) ==
    IF ~CallAccepted(s, "describe_tags") THEN Raise(e, "AttributeError")
    ELSE TagDiff(e, attrs, observed)

PyNoneStr == "str(None)"

\* current_attributes (lines 222-230); existing_props has none of the keys
\* it reads
CurrentAttributes ==
    RemoveNoneAttributes(
        [ListenerArn |-> None, Priority |-> PyNoneStr, Conditions |-> None,
         Actions |-> "type=None,target_group_arn=None"])

Comparable(d) == [k \in DOMAIN d \ {"Tags", "Priority"} |-> d[k]]

\* get_cache_policy from line 232 on: the diff that seeds the follow-up ops
GetDiff(s, e, attrs, res) ==
    LET e1 == IF Comparable(attrs) # Comparable(CurrentAttributes)
              THEN AddOp(e, "update_cache_policy", Flag) ELSE e
        e2 == IF DictGet(attrs, "Priority") # DictGet(CurrentAttributes, "Priority")
              THEN AddOp(e1, "update_cache_policy_priority", Flag) ELSE e1
    IN  TagReconcile(s, e2, attrs, res.tags)

\* mutant: the diff of line 232 is reached, line 225 does not raise
GetFoundReachesDiff(s, e, attrs, id, res) ==
    LET e1 == AddState(e, [cache_policy_id |-> id, region |-> Region])
        e2 == AddProps(e1, [id |-> id, name |-> DictGet(res.config, "Name"),
                            description |-> DictGet(res.config, "Comment"),
                            etag |-> res.etag])
        e3 == AddLinks(e2, [Rule |-> id])
    IN  GetDiff(s, e3, attrs, res)

\* get_cache_policy when the lookup returned a cache policy (lines 205-230)
GetFound(s, e, attrs, id, res) ==
    LET e1 == AddState(e, [cache_policy_id |-> id, region |-> Region])
        e2 == AddProps(e1, [id |-> id, name |-> DictGet(res.config, "Name"),
                            description |-> DictGet(res.config, "Comment"),
                            etag |-> res.etag])
        e3 == AddLinks(e2, [Rule |-> id])
    IN  IF ~NameDefined("reformatted_conditions") THEN Raise(e3, "NameError")
        ELSE GetDiff(s, e3, attrs, res)

\* mutant: the missing id is taken for a resource to update
GetNoIdUpdates(e) == Ok(AddOp(e, "update_cache_policy", Flag))

\* mutant: without a recorded id the lookup queues a delete
GetNoIdDeletes(e) == Ok(AddOp(e, "delete_cache_policy", Flag))

\* get_cache_policy without a recorded id (lines 292-295)
GetNoId(e) == Ok(AddOp(e, "create_cache_policy", Flag))

\* get_cache_policy when the lookup raised (lines 283-291)
GetFailed(s, e, ans) ==
    IF ~ExceptionResolves(s) THEN Raise(e, "AttributeError")
    ELSE IF ans = "NotFound" THEN Ok(AddOp(e, "create_cache_policy", Flag))
    ELSE Ok(RetryError(e, "Get Listener Rule Error", ProgressGetRetry))

\* get_cache_policy (lines 193-295); ans is the answer of the lookup,
\* "NoCall" when no lookup is made
GetBody(s, e, attrs, id, ans, res) ==
    IF id = None THEN GetNoId(e)
    ELSE IF ans = "Found" THEN GetFound(s, e, attrs, id, res)
    ELSE IF ans = "Empty" THEN Ok(AddOp(e, "create_cache_policy", Flag))
    ELSE GetFailed(s, e, ans)

\* mutant: every client error of the create is handed to the retry path
CreateFailedRetries(e, ans) == Ok(RetryError(e, ans, ProgressCreateError))

\* mutant: the named exceptions of the create are left to lambda_handler
CreateFailedUnexpected(e, ans) == Ok(Unexpected(e, ans))

\* create_cache_policy when the create raised a client error (lines 359-399)
CreateFailed(e, ans) ==
    IF ans = "Permanent" THEN Ok(PermError(e, ans, ProgressCreateError))
    ELSE Ok(HandleCommonErrors(e, ans, ProgressCreateError))

\* create_cache_policy (lines 298-399)
CreateBody(s, e, attrs, ans) ==
    IF ~CallAccepted(s, "create_cache_policy") THEN Raise(e, "AttributeError")
    ELSE IF ans \in ErrorAnswers /\ ~ExceptionResolves(s)
    THEN Raise(e, "AttributeError")
    ELSE IF ans = "Success"
    THEN LET e1 == AddState(e, [cache_policy_id |-> NewId, region |-> Region])
         IN  IF ~NameDefined("formatted_conditions_to_conditions")
             THEN Raise(e1, "NameError")
             ELSE LET e2 == AddProps(e1, [arn |-> NewId, listener_arn |-> None,
                                          conditions |-> None, priority |-> None,
                                          action_type |-> None,
                                          target_group_arn |-> None])
                      e3 == AddLinks(e2, [Rule |-> NewId])
                  IN  TagReconcile(s, e3, attrs, EmptyMap)
    ELSE CreateFailed(e, ans)

\* update_cache_policy (lines 447-495)
UpdateBody(s, e, attrs, ans) ==
    IF "cache_policy_id" \notin DOMAIN e.state THEN Raise(e, "KeyError")
    ELSE IF ~CallAccepted(s, "modify_cache_policy") THEN Raise(e, "AttributeError")
    ELSE IF ans \in ErrorAnswers /\ ~ExceptionResolves(s)
    THEN Raise(e, "AttributeError")
    ELSE IF ans = "Success"
    THEN IF ~NameDefined("formatted_conditions_to_conditions")
         THEN Raise(e, "NameError")
         ELSE LET id == e.state["cache_policy_id"]
                  e1 == AddProps(e, [arn |-> id, listener_arn |-> None,
                                     conditions |-> None, priority |-> None,
                                     action_type |-> None,
                                     target_group_arn |-> None])
              IN  Ok(AddLinks(e1, [Rule |-> id]))
    ELSE IF ans = "Permanent" THEN Ok(PermError(e, ans, ProgressCreateError))
    ELSE Ok(HandleCommonErrors(e, ans, ProgressCreateError))

\* mutant: an absent resource is an error of the delete like any other
DeleteNotFoundFails(s, e, ans) ==
    IF "cache_policy_id" \notin DOMAIN e.state THEN Raise(e, "KeyError")
    ELSE IF ~CallAccepted(s, "delete_cache_policy") THEN Raise(e, "AttributeError")
    ELSE IF ans \in ErrorAnswers /\ ~ExceptionResolves(s)
    THEN Raise(e, "AttributeError")
    ELSE IF ans = "Success" THEN Ok(e)
    ELSE Ok(HandleCommonErrors(e, ans, ProgressDeleteError))

\* delete_cache_policy (lines 525-537)
DeleteBody(s, e, ans) ==
    IF "cache_policy_id" \notin DOMAIN e.state THEN Raise(e, "KeyError")
    ELSE IF ~CallAccepted(s, "delete_cache_policy") THEN Raise(e, "AttributeError")
    ELSE IF ans \in ErrorAnswers /\ ~ExceptionResolves(s)
    THEN Raise(e, "AttributeError")
    ELSE IF ans \in {"Success", "NotFound"} THEN Ok(e)
    ELSE Ok(HandleCommonErrors(e, ans, ProgressDeleteError))

-----------------------------------------------------------------------------
(* The remote API: the answers a call can get, and what a call changes *)

Ids == {OldId, NewId}

LookupAnswers(r, id) ==
    (IF r[id].exists THEN {"Found"} ELSE {"NotFound"})
        \cup {"Empty", "NotAuthorized", "Transient"}

CreateAnswers == {"Success", "Permanent", "Transient"}

UpdateAnswers(r, id) ==
    (IF r[id].exists THEN {"Success"} ELSE {}) \cup {"Permanent", "Transient"}

DeleteAnswers(r, id) ==
    (IF r[id].exists THEN {"Success"} ELSE {"NotFound"})
        \cup {"Permanent", "Transient"}

Created(r, attrs) ==
    [r EXCEPT ![NewId] = [exists |-> TRUE, config |-> attrs,
                          tags |-> EmptyMap, etag |-> "E1"]]

Updated(r, id, attrs) == [r EXCEPT ![id].config = attrs]

Deleted(r, id) == [r EXCEPT ![id] = NoResource]

NoOutcome == [op |-> None, ans |-> None]

-----------------------------------------------------------------------------
(* lambda_handler *)

\* mutant: a delete starts with the lookup, like an upsert
SeedLooksUpFirst(e, ev) ==
    IF ev.op = "upsert" THEN Ok(AddOp(e, "get_cache_policy", Flag))
    ELSE LET e1 == AddOp(AddOp(e, "get_cache_policy", Flag),
                         "delete_cache_policy", Flag)
         IN  IF ev.prev_id = None THEN Raise(e1, "KeyError")
             ELSE Ok(AddState(e1, [cache_policy_id |-> ev.prev_id]))

\* mutant: the starting point of a delete also queues a tag operation
SeedQueuesTagOp(e, ev) ==
    IF ev.op = "upsert" THEN Ok(AddOp(e, "get_cache_policy", Flag))
    ELSE LET e1 == AddOp(AddOp(e, "delete_cache_policy", Flag), "remove_tags",
                         OpValue(TagKeys, EmptyMap))
         IN  IF ev.prev_id = None THEN Raise(e1, "KeyError")
             ELSE Ok(AddState(e1, [cache_policy_id |-> ev.prev_id]))

\* mutant: an upsert queues the create ahead of the lookup
SeedCreateThenGet(e, ev) ==
    IF ev.op = "upsert"
    THEN Ok(AddOp(AddOp(e, "create_cache_policy", Flag), "get_cache_policy", Flag))
    ELSE LET e1 == AddOp(e, "delete_cache_policy", Flag)
         IN  IF ev.prev_id = None THEN Raise(e1, "KeyError")
             ELSE Ok(AddState(e1, [cache_policy_id |-> ev.prev_id]))

\* mutant: an upsert starts with the create, without a lookup
SeedCreatesBlind(e, ev) ==
    IF ev.op = "upsert" THEN Ok(AddOp(e, "create_cache_policy", Flag))
    ELSE LET e1 == AddOp(e, "delete_cache_policy", Flag)
         IN  IF ev.prev_id = None THEN Raise(e1, "KeyError")
             ELSE Ok(AddState(e1, [cache_policy_id |-> ev.prev_id]))

\* mutant: a delete without a recorded id is taken for done
SeedDeleteNothing(e, ev) ==
    IF ev.op = "upsert" THEN Ok(AddOp(e, "get_cache_policy", Flag))
    ELSE IF ev.prev_id = None THEN Ok(e)
    ELSE Ok(AddState(AddOp(e, "delete_cache_policy", Flag),
                     [cache_policy_id |-> ev.prev_id]))

\* DECLARE STARTING POINT (lines 134-148) of an invocation without
\* pass_back_data
Seed(e, ev) ==
    IF ev.op = "upsert" THEN Ok(AddOp(e, "get_cache_policy", Flag))
    ELSE LET e1 == AddOp(e, "delete_cache_policy", Flag)
         IN  IF ev.prev_id = None THEN Raise(e1, "KeyError")
             ELSE Ok(AddState(e1, [cache_policy_id |-> ev.prev_id]))

\* mutant: the starting point is declared on a retry too
ResumeSeeds(e, ev) == Seed(e, ev)

\* ... and of an invocation with pass_back_data (lines 137-138): no
\* starting point is set
Resume(e, ev) == Ok(e)

\* mutant: the operation leaves the queue however its body ended
AfterAlwaysCompletes(r, op) ==
    IF r.exc # None THEN Unexpected(CompleteOp(r.e, op), r.exc)
    ELSE CompleteOp(r.e, op)

\* what one declared call leaves in eh and where lambda_handler goes next
After(r, op) == IF r.exc # None THEN Unexpected(r.e, r.exc) ELSE ExtReturn(r.e, op)

Goto(r, next) == IF r.exc # None THEN "finish" ELSE next

\* history: an op body entered, a remote call sent, in the current invocation
Entry(op) == [inv |-> invocations, op |-> op]

\* the id the scratch state carries, for the calls that read it
StateId(e) ==
    IF "cache_policy_id" \in DOMAIN e.state THEN e.state["cache_policy_id"] ELSE None

\* the keyword arguments of the remote calls (lines 201-203, 302, 448-452,
\* 529-531)
GetArgs(id) == [Id |-> id]

UpdateArgs(e, attrs) ==
    ("RuleArn" :> StateId(e)) @@
        [k \in DOMAIN attrs \ {"Tags", "ListenerArn", "Priority"} |-> attrs[k]]

DeleteArgs(e) == [RuleArn |-> StateId(e)]

\* the concurrency token (ETag) a call hands to the API, None without one
TokenOf(args) == DictGet(args, "IfMatch")

Call(name, id, args) ==
    [inv |-> invocations, call |-> name, id |-> id, token |-> TokenOf(args)]

Init ==
    /\ sdk \in SdkSurfaces
    /\ event \in [op : {"upsert", "delete"}, prev_id : {None, OldId},
                  cdef : ComponentDefs]
    /\ remote \in [Ids -> {NoResource} \cup Resources]
    /\ remote[NewId] = NoResource
    /\ event.prev_id = None => remote[OldId] = NoResource
    /\ eh = NewHandler
    /\ pc = "idle"
    /\ response = NoResponse
    /\ invocations = 0
    /\ entered = <<>>
    /\ calls = <<>>
    /\ outcome = NoOutcome

\* a fresh invocation: lines 57-148
Invoke ==
    /\ pc = "idle"
    /\ LET r == Seed(CaptureEvent(NoResponse), event)
       IN  /\ eh' = (IF r.exc # None THEN Unexpected(r.e, r.exc) ELSE r.e)
           /\ pc' = Goto(r, "get")
    /\ invocations' = 1
    /\ outcome' = NoOutcome
    /\ UNCHANGED <<sdk, event, remote, response, entered, calls>>

\* the orchestrator calls back with the pass_back_data of the last response
Reinvoke ==
    /\ pc = "returned"
    /\ response.has_pass_back
    /\ LET r == Resume(CaptureEvent(response), event)
       IN  /\ eh' = (IF r.exc # None THEN Unexpected(r.e, r.exc) ELSE r.e)
           /\ pc' = Goto(r, "get")
    /\ invocations' = invocations + 1
    /\ outcome' = NoOutcome
    /\ UNCHANGED <<sdk, event, remote, response, entered, calls>>

\* line 161
StepGet ==
    /\ pc = "get"
    /\ IF ~ExtRuns(eh, "get_cache_policy")
       THEN /\ pc' = "delete"
            /\ UNCHANGED <<eh, entered, calls, outcome>>
       ELSE \E ans \in (IF event.prev_id = None THEN {"NoCall"}
                        ELSE LookupAnswers(remote, event.prev_id)) :
              LET id == event.prev_id
                  r  == GetBody(sdk, eh, Attributes(event.cdef), id, ans,
                                remote[IF id = None THEN OldId ELSE id])
              IN  /\ eh' = After(r, "get_cache_policy")
                  /\ pc' = Goto(r, "delete")
                  /\ entered' = Append(entered, Entry("get_cache_policy"))
                  /\ calls' = (IF id = None THEN calls
                               ELSE Append(calls, Call("get_cache_policy", id, GetArgs(id))))
                  /\ outcome' = (IF id = None THEN outcome
                                 ELSE [op |-> "get_cache_policy", ans |-> ans])
    /\ UNCHANGED <<sdk, event, remote, response, invocations>>

\* line 164
StepDelete ==
    /\ pc = "delete"
    /\ IF ~ExtRuns(eh, "delete_cache_policy")
       THEN /\ pc' = "create"
            /\ UNCHANGED <<eh, remote, entered, calls, outcome>>
       ELSE LET id   == StateId(eh)
                sent == id # None /\ CallAccepted(sdk, "delete_cache_policy")
            IN  \E ans \in (IF sent THEN DeleteAnswers(remote, id) ELSE {"NoCall"}) :
                  LET r == DeleteBody(sdk, eh, ans)
                  IN  /\ eh' = After(r, "delete_cache_policy")
                      /\ pc' = Goto(r, "create")
                      /\ remote' = (IF ans = "Success" THEN Deleted(remote, id)
                                    ELSE remote)
                      /\ entered' = Append(entered, Entry("delete_cache_policy"))
                      /\ calls' = (IF sent THEN Append(calls,
                                        Call("delete_cache_policy", id, DeleteArgs(eh)))
                                   ELSE calls)
                      /\ outcome' = (IF sent
                                     THEN [op |-> "delete_cache_policy", ans |-> ans]
                                     ELSE outcome)
    /\ UNCHANGED <<sdk, event, response, invocations>>

\* line 167
StepCreate ==
    /\ pc = "create"
    /\ IF ~ExtRuns(eh, "create_cache_policy")
       THEN /\ pc' = "update"
            /\ UNCHANGED <<eh, remote, entered, calls, outcome>>
       ELSE LET sent == CallAccepted(sdk, "create_cache_policy")
            IN  \E ans \in (IF sent THEN CreateAnswers ELSE {"NoCall"}) :
                  LET r == CreateBody(sdk, eh, Attributes(event.cdef), ans)
                  IN  /\ eh' = After(r, "create_cache_policy")
                      /\ pc' = Goto(r, "update")
                      /\ remote' = (IF ans = "Success"
                                    THEN Created(remote, Attributes(event.cdef))
                                    ELSE remote)
                      /\ entered' = Append(entered, Entry("create_cache_policy"))
                      /\ calls' = (IF sent THEN Append(calls,
                                        Call("create_cache_policy", None,
                                             Attributes(event.cdef)))
                                   ELSE calls)
                      /\ outcome' = (IF sent
                                     THEN [op |-> "create_cache_policy", ans |-> ans]
                                     ELSE outcome)
    /\ UNCHANGED <<sdk, event, response, invocations>>

\* line 171
StepUpdate ==
    /\ pc = "update"
    /\ IF ~ExtRuns(eh, "update_cache_policy")
       THEN /\ pc' = "finish"
            /\ UNCHANGED <<eh, remote, entered, calls, outcome>>
       ELSE LET id   == StateId(eh)
                sent == id # None /\ CallAccepted(sdk, "modify_cache_policy")
            IN  \E ans \in (IF sent THEN UpdateAnswers(remote, id) ELSE {"NoCall"}) :
                  LET r == UpdateBody(sdk, eh, Attributes(event.cdef), ans)
                  IN  /\ eh' = After(r, "update_cache_policy")
                      /\ pc' = "finish"
                      /\ remote' = (IF ans = "Success"
                                    THEN Updated(remote, id, Attributes(event.cdef))
                                    ELSE remote)
                      /\ entered' = Append(entered, Entry("update_cache_policy"))
                      /\ calls' = (IF sent THEN Append(calls,
                                        Call("modify_cache_policy", id,
                                             UpdateArgs(eh, Attributes(event.cdef))))
                                   ELSE calls)
                      /\ outcome' = (IF sent
                                     THEN [op |-> "update_cache_policy", ans |-> ans]
                                     ELSE outcome)
    /\ UNCHANGED <<sdk, event, response, invocations>>

\* `return eh.finish()` (lines 176 and 184)
StepFinish ==
    /\ pc = "finish"
    /\ response' = Finish(eh)
    /\ pc' = "returned"
    /\ UNCHANGED <<sdk, event, remote, eh, invocations, entered, calls, outcome>>

Next ==
    \/ Invoke
    \/ Reinvoke
    \/ StepGet
    \/ StepDelete
    \/ StepCreate
    \/ StepUpdate
    \/ StepFinish

Spec == Init /\ [][Next]_vars

-----------------------------------------------------------------------------
(* The tag reconciliation on its own: the comparison of lines 244-271 is   *)
(* run on a desired and an observed mapping, the tag operations it queued  *)
(* are applied to the resource, and the comparison is run a second time.   *)

\* attributes that carry a Tags entry
TagAttributes == {("Tags" :> t) @@ c : t \in TagMaps, c \in Configs}

\* remove_tags (lines 402-418) and set_tags (lines 421-444), answered with
\* success
RemoveTagsApplied(tags, keys) == [k \in DOMAIN tags \ keys |-> tags[k]]

SetTagsApplied(tags, new) == new @@ tags

TagOpsApplied(e, tags) ==
    LET t1 == IF HasOp(e, "remove_tags")
              THEN RemoveTagsApplied(tags, OpValueOf(e, "remove_tags").keys)
              ELSE tags
    IN  IF HasOp(e, "set_tags")
        THEN SetTagsApplied(t1, OpValueOf(e, "set_tags").tags) ELSE t1

TagInit ==
    /\ sdk = "as_written"
    /\ event \in [op : {"upsert"}, prev_id : {OldId}, attrs : TagAttributes]
    /\ remote \in [Ids -> {NoResource} \cup Resources]
    /\ remote[OldId].exists
    /\ remote[OldId].config = Comparable(event.attrs)
    /\ remote[NewId] = NoResource
    /\ eh = AddState(NewHandler, [cache_policy_id |-> OldId, region |-> Region])
    /\ pc = "compare"
    /\ response = NoResponse
    /\ invocations = 0
    /\ entered = <<>>
    /\ calls = <<>>
    /\ outcome = NoOutcome

\* one run of the comparison; invocations counts the runs
TagCompare ==
    /\ pc = "compare"
    /\ invocations < 2
    /\ LET r == TagDiff(eh, event.attrs, remote[OldId].tags)
       IN  /\ eh' = r.e
           /\ outcome' = [op |-> "tag_diff", ans |-> r.exc]
    /\ invocations' = invocations + 1
    /\ pc' = "apply"
    /\ UNCHANGED <<sdk, event, remote, response, entered, calls>>

\* the queued tag operations run against the resource and leave the queue
TagApply ==
    /\ pc = "apply"
    /\ remote' = [remote EXCEPT ![OldId].tags = TagOpsApplied(eh, @)]
    /\ eh' = CompleteOp(CompleteOp(eh, "remove_tags"), "set_tags")
    /\ pc' = "compare"
    /\ UNCHANGED <<sdk, event, response, invocations, entered, calls, outcome>>

TagNext ==
    \/ TagCompare
    \/ TagApply

SpecTags == TagInit /\ [][TagNext]_vars

-----------------------------------------------------------------------------
(* Properties *)

Last(q) == q[Len(q)]

\* the op bodies entered in invocation n, in order
EnteredIn(n) == SelectSeq(entered, LAMBDA x : x.inv = n)

\* get_cache_policy made its lookup in this invocation and no body ran since
JustAfterGet ==
    /\ outcome.op = "get_cache_policy"
    /\ entered # <<>>
    /\ Last(entered) = Entry("get_cache_policy")

Count(e, name) == Cardinality({i \in 1..Len(e.ops) : e.ops[i].name = name})

ToRemove(desired, observed) == DOMAIN observed \ DOMAIN desired

ToAdd(desired, observed) ==
    [k \in {x \in DOMAIN desired :
              x \notin DOMAIN observed \/ observed[x] # desired[x]} |-> desired[k]]

\* C1: a fresh delete invocation sends no lookup and runs no diff: the queue
\* is seeded with delete_cache_policy alone, the delete is sent for the id
\* of prev_state.props, and no other operation is queued or entered.
C1_DeleteSkipsLookup ==
    (event.op = "delete" /\ invocations = 1) =>
        /\ \A i \in 1..Len(calls) :
              calls[i].call = "delete_cache_policy" /\ calls[i].id = event.prev_id
        /\ \A i \in 1..Len(entered) : entered[i].op = "delete_cache_policy"
        /\ \A i \in 1..Len(eh.ops) : eh.ops[i].name = "delete_cache_policy"
        /\ pc = "get" => /\ OpNames(eh) = <<"delete_cache_policy">>
                         /\ StateId(eh) = event.prev_id

C1_Witness ==
    /\ event.op = "delete" /\ invocations = 1 /\ pc = "returned"
    /\ Len(entered) = 1 /\ StateId(eh) = event.prev_id

\* C2: in an upsert with a prior id, a lookup answered NotFound or
\* NotAuthorized makes get_cache_policy queue exactly create_cache_policy,
\* with no retry and no error declared.
C2_AbsenceFallsBackToCreate ==
    (event.op = "upsert" /\ JustAfterGet
        /\ outcome.ans \in {"NotFound", "NotAuthorized"}) =>
        /\ OpNames(eh) = <<"create_cache_policy">>
        /\ ~eh.ret.declared

\* C3: in an upsert without a recorded id, get_cache_policy sends no lookup
\* and queues create_cache_policy once and no update or tag operation.
C3_NoIdQueuesCreate ==
    (event.op = "upsert" /\ event.prev_id = None) =>
        /\ \A i \in 1..Len(calls) : calls[i].call # "get_cache_policy"
        /\ (entered # <<>> /\ Last(entered).op = "get_cache_policy") =>
              /\ Count(eh, "create_cache_policy") = 1
              /\ \A i \in 1..Len(eh.ops) :
                    eh.ops[i].name \in {"get_cache_policy", "create_cache_policy"}
              /\ calls = <<>>

C3_Witness ==
    /\ event.op = "upsert" /\ event.prev_id = None
    /\ Len(entered) = 1 /\ pc = "delete"

\* C4: after a successful lookup whose configuration equals the desired
\* one, get_cache_policy has queued no update_cache_policy.
C4_EqualConfigNoUpdate ==
    (JustAfterGet /\ outcome.ans = "Found"
        /\ Attributes(event.cdef) = remote[event.prev_id].config) =>
        ~HasOp(eh, "update_cache_policy")

C4_Witness ==
    /\ JustAfterGet /\ outcome.ans = "Found"
    /\ Attributes(event.cdef) = remote[event.prev_id].config

\* C5: after a successful lookup whose configuration differs from the
\* desired one, the queue holds exactly one update_cache_policy and no
\* create_cache_policy.
C5_DifferentConfigQueuesUpdate ==
    (JustAfterGet /\ outcome.ans = "Found"
        /\ Attributes(event.cdef) # remote[event.prev_id].config) =>
        /\ Count(eh, "update_cache_policy") = 1
        /\ ~HasOp(eh, "create_cache_policy")

\* C6: after a successful lookup, remove_tags is queued with the observed
\* keys absent from the caller's tags when there are any, and set_tags with
\* the caller's pairs that are missing or different remotely when there are
\* any.
C6_TagOpsQueued ==
    (JustAfterGet /\ outcome.ans = "Found") =>
        LET rm  == ToRemove(event.cdef.tags, remote[event.prev_id].tags)
            add == ToAdd(event.cdef.tags, remote[event.prev_id].tags)
        IN  /\ rm # {} => /\ HasOp(eh, "remove_tags")
                          /\ OpValueOf(eh, "remove_tags").keys = rm
            /\ DOMAIN add # {} => /\ HasOp(eh, "set_tags")
                                  /\ OpValueOf(eh, "set_tags").tags = add

C8_PermanentErrorHalts ==
    outcome.ans = "Permanent" =>
        /\ Last(entered) = Entry(outcome.op)
        /\ pc = "returned" => /\ response.progress < ProgressDone
                              /\ response.error = "Permanent"
                              /\ ~response.has_pass_back
                              /\ ~ENABLED Next

C8_Witness == outcome.ans = "Permanent" /\ pc = "returned"

\* C9: when a remote call was answered with a transient error, the response
\* carries pass_back_data whose queue still starts with that operation, no
\* later body was entered, and the progress is below 100.
C9_TransientKeepsQueue ==
    (outcome.ans = "Transient" /\ pc = "returned") =>
        /\ Last(entered) = Entry(outcome.op)
        /\ response.progress < ProgressDone
        /\ response.has_pass_back
        /\ response.pass_back.ops # <<>>
        /\ response.pass_back.ops[1].name = outcome.op
        /\ response.pass_back.state = eh.state

\* C10: an invocation with pass_back_data starts from the passed-back queue
\* and scratch state, nothing is seeded; the first body it enters is the
\* head of that queue, and the lookup runs only if it was passed back.
C10_RetryResumes ==
    (invocations > 1 /\ pc # "returned") =>
        LET mine == EnteredIn(invocations)
            back == response.pass_back
        IN  /\ mine = <<>> => eh.ops = back.ops /\ eh.state = back.state
            /\ mine # <<>> => /\ back.ops # <<>>
                              /\ mine[1].op = back.ops[1].name
            /\ \A i \in 1..Len(mine) :
                  mine[i].op = "get_cache_policy" =>
                      \E j \in 1..Len(back.ops) : back.ops[j].name = "get_cache_policy"

C10_Witness ==
    invocations > 1 /\ pc # "returned" /\ EnteredIn(invocations) # <<>>

\* the calls to the remote API named name that were sent
CallsOf(name) == {i \in 1..Len(calls) : calls[i].call = name}

\* C11: an upsert without prior state whose create was answered with
\* success has sent the create exactly once and returns progress 100, no
\* error code, and props that hold the new resource's id and its etag.
C11_CreateSucceeds ==
    (event.op = "upsert" /\ event.prev_id = None /\ pc = "returned"
        /\ outcome = [op |-> "create_cache_policy", ans |-> "Success"]) =>
        /\ Cardinality(CallsOf("create_cache_policy")) = 1
        /\ response.progress = ProgressDone
        /\ response.error = None
        /\ {"id", "etag"} \subseteq DOMAIN response.props
        /\ response.props["id"] = NewId

\* C13: when the remote delete of the recorded id was answered NotFound, the
\* delete counts as done: no return is declared, no retry is counted, the
\* operation leaves the queue, and the response has progress 100, no error
\* code and no pass_back_data.
C13_DeleteOfAbsentSucceeds ==
    (event.op = "delete"
        /\ outcome = [op |-> "delete_cache_policy", ans |-> "NotFound"]) =>
        /\ ~eh.ret.declared
        /\ pc # "returned" => eh.retries = CaptureEvent(response).retries
        /\ ~HasOp(eh, "delete_cache_policy")
        /\ pc = "returned" => /\ response.progress = ProgressDone
                              /\ response.error = None
                              /\ ~response.has_pass_back
                              /\ ~ENABLED Next

C13_Witness ==
    /\ event.op = "delete" /\ pc = "returned"
    /\ outcome = [op |-> "delete_cache_policy", ans |-> "NotFound"]

\* C14: when the create was answered with a quota-exceeded (permanent)
\* error, a return with progress 20 and the provider's message is declared,
\* no retry marker is added, and the response carries that progress and
\* error code, carries no pass_back_data, and nothing is invoked again.
C14_CreateQuotaError ==
    outcome = [op |-> "create_cache_policy", ans |-> "Permanent"] =>
        /\ eh.ret = [declared |-> TRUE, progress |-> ProgressCreateError,
                     error |-> "Permanent", callback |-> FALSE]
        /\ pc # "returned" => eh.retries = CaptureEvent(response).retries
        /\ pc = "returned" => /\ response.progress = ProgressCreateError
                              /\ response.error = "Permanent"
                              /\ ~response.has_pass_back
                              /\ ~ENABLED Next

C14_Witness ==
    /\ outcome = [op |-> "create_cache_policy", ans |-> "Permanent"]
    /\ pc = "returned" /\ response.progress = ProgressCreateError

\* C15: every update or delete sent to the remote API carries a concurrency
\* token, the current etag of the resource it addresses.
C15_CallsCarryEtag ==
    \A i \in 1..Len(calls) :
        calls[i].call \in {"modify_cache_policy", "delete_cache_policy"} =>
            /\ calls[i].token # None
            /\ remote[calls[i].id].exists =>
                  calls[i].token = remote[calls[i].id].etag

\* the exceptions the op bodies and the starting point raise without
\* handling them
ExceptionNames == {"KeyError", "NameError", "AttributeError"}

\* C16: an exception that escapes the starting point or an op body is
\* caught by lambda_handler: a return with progress 0, the exception as
\* error code and no call back is declared, no further body runs, and the
\* invocation still returns a response, which carries that error code, a
\* progress below 100 and no pass_back_data; nothing is invoked again.
C16_UnexpectedIsPermanent ==
    /\ (event.op = "delete" /\ event.prev_id = None /\ invocations > 0) =>
          eh.ret.error = "KeyError"
    /\ (JustAfterGet /\ outcome.ans = "Found") => eh.ret.error = "NameError"
    /\ eh.ret.error \in ExceptionNames =>
          /\ pc \in {"finish", "returned"}
          /\ eh.ret = [declared |-> TRUE, progress |-> 0,
                       error |-> eh.ret.error, callback |-> FALSE]
          /\ pc = "returned" => /\ response.sent
                                /\ response.error = eh.ret.error
                                /\ response.progress < ProgressDone
                                /\ ~response.has_pass_back
                                /\ ~ENABLED Next

C16_Witness ==
    pc = "returned" /\ response.error = "NameError" /\ outcome.ans = "Found"

\* C17: a response reports progress 100 only when the operation queue is
\* empty and no error or retry was declared: no operation that was queued
\* is still pending, and the response has no error code and no
\* pass_back_data.
C17_DoneMeansQueueEmpty ==
    (pc = "returned" /\ response.progress = ProgressDone) =>
        /\ eh.ops = <<>>
        /\ ~eh.ret.declared
        /\ response.error = None
        /\ ~response.has_pass_back

C17_Witness ==
    /\ pc = "returned" /\ response.progress = ProgressDone
    /\ entered # <<>> /\ calls # <<>>

\* the lookups answered with a failure that get_cache_policy retries
LookupRetries == RetryCount(eh, "Get Listener Rule Error")

\* C18: lookups that keep failing transiently are retried a bounded number
\* of times: at most MaxRetries + 1 lookups are sent, and the response to
\* the lookup that exhausts the budget carries the error, a progress below
\* 100 and no pass_back_data, so that nothing is invoked again.
C18_LookupRetriesBounded ==
    /\ LookupRetries <= MaxRetries + 1
    /\ Cardinality(CallsOf("get_cache_policy")) <= MaxRetries + 1
    /\ (pc = "returned" /\ outcome.op = "get_cache_policy"
            /\ outcome.ans \in {"Transient", "NotAuthorized"}
            /\ LookupRetries > MaxRetries) =>
          /\ response.error = "Get Listener Rule Error"
          /\ response.progress < ProgressDone
          /\ ~response.has_pass_back
          /\ ~ENABLED Next

C18_Witness ==
    /\ pc = "returned" /\ outcome = [op |-> "get_cache_policy", ans |-> "Transient"]
    /\ Cardinality(CallsOf("get_cache_policy")) = MaxRetries + 1
    /\ ~response.has_pass_back

\* C19: operations run in queue order: whenever an op body is entered (and
\* with it its remote call started), that operation is the head of the
\* queue, every operation queued ahead of it having left the queue.
C19_QueueOrder ==
    [][entered' # entered =>
          /\ eh.ops # <<>>
          /\ Last(entered').op = eh.ops[1].name
          /\ ~eh.ret.declared]_vars

C19_Witness ==
    /\ Len(entered) >= 2
    /\ entered[1].op = "get_cache_policy"
    /\ Last(entered) = [inv |-> 2, op |-> "create_cache_policy"]
    /\ calls # <<>> /\ Last(calls).call = "create_cache_policy"

\* the remote calls sent in invocation n
CallsIn(n) == {i \in 1..Len(calls) : calls[i].inv = n}

\* C20: one invocation of lambda_handler executes at most one operation: at
\* most one op body is entered in it.
C20_OneOpPerInvocation == Len(EnteredIn(invocations)) <= 1

\* C20, amended: one invocation enters at most two op bodies and sends at
\* most two remote calls; when it enters two, they are get_cache_policy and
\* then the create_cache_policy that get_cache_policy queued.  An
\* invocation that starts with another operation executes that one alone.
C20_LookupThenCreateAtMost ==
    LET mine == EnteredIn(invocations)
    IN  /\ Len(mine) <= 2
        /\ Cardinality(CallsIn(invocations)) <= Len(mine)
        /\ Len(mine) = 2 =>
              /\ mine[1].op = "get_cache_policy"
              /\ mine[2].op = "create_cache_policy"

C20_Witness ==
    /\ Len(EnteredIn(invocations)) = 2
    /\ Cardinality(CallsIn(invocations)) = 2
    /\ pc = "returned"

\* the names of the operations lambda_handler declares or the bodies queue
AllOps ==
    {"get_cache_policy", "delete_cache_policy", "create_cache_policy",
     "update_cache_policy", "update_cache_policy_priority", "remove_tags",
     "set_tags"}

\* the bodies of op entered so far in the deployment attempt
EntriesOf(op) == {i \in 1..Len(entered) : entered[i].op = op}

\* C21: within a deployment attempt an operation leaves the queue only in
\* the step that ran its body, and only if the body neither declared a
\* return nor raised; an operation that ran and left the queue is not
\* queued again, so it completes at most once; and once a return (retry or
\* error) is declared, no further body is entered in that invocation.
C21_CompletesOnce ==
    [][/\ \A op \in AllOps :
            /\ (HasOp(eh, op) /\ ~HasOp(eh', op)) =>
                  /\ entered' = Append(entered, Entry(op))
                  /\ ~eh'.ret.declared
            /\ (~HasOp(eh, op) /\ EntriesOf(op) # {}) => ~HasOp(eh', op)
       /\ eh.ret.declared => entered' = entered]_vars

C21_Witness ==
    /\ invocations >= 2
    /\ Cardinality(EntriesOf("delete_cache_policy")) >= 2
    /\ ~HasOp(eh, "delete_cache_policy")
    /\ pc = "returned" /\ response.progress = ProgressDone

PrimaryOps == {"create_cache_policy", "update_cache_policy", "delete_cache_policy"}

\* the primary operations whose body ran in the deployment attempt
PrimaryEntered == {op \in PrimaryOps : EntriesOf(op) # {}}

\* the calls sent that change the remote resource
ChangingCalls ==
    CallsOf("create_cache_policy") \cup CallsOf("modify_cache_policy")
        \cup CallsOf("delete_cache_policy")

\* C22: a deployment attempt runs at most one of create, update and delete,
\* and exactly one when it ends with progress 100 after a changing call was
\* sent; in an upsert every create or update body is preceded by a
\* get_cache_policy body, and a delete runs only in a delete request.
C22_OnePrimaryOperation ==
    /\ Cardinality(PrimaryEntered) <= 1
    /\ (pc = "returned" /\ response.progress = ProgressDone
            /\ ChangingCalls # {}) => Cardinality(PrimaryEntered) = 1
    /\ event.op = "upsert" =>
          /\ "delete_cache_policy" \notin PrimaryEntered
          /\ \A i \in EntriesOf("create_cache_policy")
                        \cup EntriesOf("update_cache_policy") :
                \E j \in EntriesOf("get_cache_policy") : j < i
    /\ event.op = "delete" => PrimaryEntered \subseteq {"delete_cache_policy"}

C22_Witness ==
    /\ pc = "returned" /\ response.progress = ProgressDone
    /\ ChangingCalls # {} /\ ~remote[event.prev_id].exists
    /\ PrimaryEntered = {"delete_cache_policy"}

\* C24: after a lookup that failed with an error other than NotFound and
\* NotAuthorized, get_cache_policy has queued nothing, get_cache_policy is
\* still the whole queue, and a retry with progress 10 is declared, which is
\* called back while the retry budget lasts with that queue passed back.
C24_LookupFailureRetries ==
    (JustAfterGet /\ outcome.ans = "Transient") =>
        /\ OpNames(eh) = <<"get_cache_policy">>
        /\ eh.ret.declared
        /\ eh.ret.progress = ProgressGetRetry
        /\ LookupRetries <= MaxRetries =>
              /\ eh.ret.callback
              /\ pc = "returned" =>
                    /\ response.has_pass_back
                    /\ OpNames(response.pass_back) = <<"get_cache_policy">>

\* C25: an upsert with a recorded id whose lookup found a resource with the
\* desired configuration and the desired tags completes as a no-op: no
\* changing call is sent and the response has progress 100, no error code
\* and an empty queue behind it.
C25_NoOpUpsertCompletes ==
    (event.op = "upsert" /\ pc = "returned"
        /\ outcome = [op |-> "get_cache_policy", ans |-> "Found"]
        /\ Attributes(event.cdef) = remote[event.prev_id].config
        /\ event.cdef.tags = remote[event.prev_id].tags) =>
        /\ ChangingCalls = {}
        /\ response.progress = ProgressDone
        /\ response.error = None
        /\ eh.ops = <<>>

\* C26: a fresh delete request whose prev_state records no resource id
\* enters no op body and sends no remote call, and its response reports a
\* failure: progress 0, an error code, no pass_back_data, and nothing is
\* invoked again.
C26_DeleteWithoutIdFails ==
    (event.op = "delete" /\ event.prev_id = None /\ invocations > 0) =>
        /\ invocations = 1
        /\ entered = <<>>
        /\ calls = <<>>
        /\ pc = "returned" => /\ response.progress = 0
                              /\ response.error = "KeyError"
                              /\ ~response.has_pass_back
                              /\ ~ENABLED Next

C26_Witness ==
    /\ event.op = "delete" /\ event.prev_id = None
    /\ pc = "returned" /\ response.sent

====
